---- MODULE Spec2Model ----
(***************************************************************************)
(* A model of the go-rollbar client: the report pipeline of the            *)
(* consolidated Client (post / parseResponse / Debug..Critical) and of the *)
(* older httpClient (payload / newRequest / Do / parseResponse).           *)
(*                                                                         *)
(* One client is constructed (Init chooses its configuration) and then     *)
(* used for a bounded number of calls.  The client's fields are never      *)
(* written after New and the calls share nothing but the UUID generator,   *)
(* whose draws are atomic, so the calls are taken one after the other, in  *)
(* the order of their draws.  A call runs synchronously up to              *)
(* ctxhttp.Do, waits there for the network (the only suspension point),    *)
(* and then runs synchronously to its end.  The caller's context may be    *)
(* cancelled at any moment while the call is running.                      *)
(***************************************************************************)
EXTENDS Integers, Sequences, FiniteSets, TLC

VARIABLES
    cfg,        \* the client's fields, fixed by New
    call,       \* the call in progress (or Idle)
    nextUUID,   \* how many UUIDs uuid.New() has handed out, plus one
    issued,     \* the ids of the payloads built without an explicit id, in order
    ncalls      \* calls started so far

vars == <<cfg, call, nextUUID, issued, ncalls>>

\* number of calls made on the client
MaxCalls == 3

----------------------------------------------------------------------------
(* Levels *)

DebugLevel == "debug"
InfoLevel == "info"
WarnLevel == "warning"
ErrorLevel == "error"
CriticalLevel == "critical"

Levels == {DebugLevel, InfoLevel, WarnLevel, ErrorLevel, CriticalLevel}

\* a Level is a string type: any string converts to it
BogusLevel == "bogus"
AnyLevel == Levels \cup {BogusLevel}

Methods == {"Debug", "Info", "Error", "Warn", "Critical"}

\* a copy-paste slip: Warn reporting at the error level
LevelOfWarnAsError(method) ==
    CASE method = "Debug" -> DebugLevel
      [] method = "Info" -> InfoLevel
      [] method = "Error" -> ErrorLevel
      [] method = "Warn" -> ErrorLevel
      [] method = "Critical" -> CriticalLevel

\* the level each report method passes to post
LevelOf(method) ==
    CASE method = "Debug" -> DebugLevel
      [] method = "Info" -> InfoLevel
      [] method = "Error" -> ErrorLevel
      [] method = "Warn" -> WarnLevel
      [] method = "Critical" -> CriticalLevel

----------------------------------------------------------------------------
(* Errors: a message and, for a wrapped error, the message of its cause *)

Nil == [msg |-> "", cause |-> ""]
ErrorsNew(msg) == [msg |-> msg, cause |-> ""]
Wrap(err, msg) == [msg |-> msg, cause |-> err.msg]

ErrEmptyToken == ErrorsNew("empty token")
ErrUnsupportedType == ErrorsNew("json: unsupported type")
ErrParseURL == ErrorsNew("parse: missing protocol scheme")
ErrCanceled == ErrorsNew("context canceled")
ErrConnection == ErrorsNew("dial tcp: connection refused")
ErrSyntax == ErrorsNew("invalid character")
ErrTrailing == ErrorsNew("invalid character after top-level value")
ErrType == ErrorsNew("json: cannot unmarshal")
ErrEOF == ErrorsNew("EOF")
ErrUnexpectedEnd == ErrorsNew("unexpected end of JSON input")

----------------------------------------------------------------------------
(* Configuration *)

DefaultEndpoint == "https://api.rollbar.com/api/1/item/"
BadEndpoint == "://bad"

Impls == {"Client", "httpClient"}
Tokens == {"", "tok"}

Configs ==
    [impl : Impls, token : Tokens, debug : BOOLEAN,
     endpoint : {DefaultEndpoint, BadEndpoint}]

----------------------------------------------------------------------------
(* Response bodies, by what encoding/json makes of them *)

StatusOK == 200

\* the statuses the server answers with: 200, another 2xx, a 5xx
Statuses == {StatusOK, 201, 500}

\* resp.Status
StatusText(status) ==
    CASE status = 200 -> "200 OK"
      [] status = 201 -> "201 Created"
      [] status = 500 -> "500 Internal Server Error"

Body(shape, err, uuid) == [shape |-> shape, err |-> err, uuid |-> uuid]

\* "ok": {"err":e,"result":{"uuid":u}};  "trailing": the same followed by bytes
\* that are no JSON;  "mistyped": a JSON object with a field of the wrong type;
\* "nonobject": a JSON value that is no object;  "malformed": no JSON;  "empty".
EmptyBody == Body("empty", 0, "")
OkBodies == {Body("ok", e, u) : e \in {0, 1}, u \in {"X", "Y"}}
Bodies ==
    OkBodies \cup
    {Body("trailing", 0, "X"), Body("mistyped", 0, ""), Body("nonobject", 0, ""),
     Body("malformed", 0, ""), EmptyBody}

NoResponse == [present |-> FALSE, err |-> 0, uuid |-> ""]
Response(b) == [present |-> TRUE, err |-> b.err, uuid |-> b.uuid]

----------------------------------------------------------------------------
(* encoding/json, as the client uses it *)

\* json.NewDecoder(rdr).Decode(res) with res a *api.Response: the first JSON
\* value of the stream is decoded, what follows it is not looked at
DecodeResponse(data) ==
    CASE data.shape \in {"ok", "trailing"} -> [err |-> Nil, resp |-> Response(data)]
      [] data.shape \in {"mistyped", "nonobject"} -> [err |-> ErrType, resp |-> NoResponse]
      [] data.shape = "malformed" -> [err |-> ErrSyntax, resp |-> NoResponse]
      [] data.shape = "empty" -> [err |-> ErrEOF, resp |-> NoResponse]

\* json.NewDecoder(rdr).Decode(&data) with data an interface{} holding a []byte:
\* the target is no pointer, so any JSON value is accepted and stored in the
\* callee's own variable; nothing of it reaches the caller
DecodeInterface(data) ==
    CASE data.shape \in {"ok", "trailing", "mistyped", "nonobject"} ->
            [err |-> Nil, resp |-> NoResponse]
      [] data.shape = "malformed" -> [err |-> ErrSyntax, resp |-> NoResponse]
      [] data.shape = "empty" -> [err |-> ErrEOF, resp |-> NoResponse]

\* json.Unmarshal(buf.Bytes(), &m) with m an api.Response: the whole buffer
\* must be one JSON value
UnmarshalResponse(data) ==
    CASE data.shape = "ok" -> Nil
      [] data.shape = "trailing" -> ErrTrailing
      [] data.shape \in {"mistyped", "nonobject"} -> ErrType
      [] data.shape = "malformed" -> ErrSyntax
      [] data.shape = "empty" -> ErrUnexpectedEnd

\* json.Unmarshal(buf.Bytes(), &m) with m a map[string]interface{}
UnmarshalMap(data) ==
    CASE data.shape \in {"ok", "mistyped"} -> Nil
      [] data.shape = "trailing" -> ErrTrailing
      [] data.shape = "nonobject" -> ErrType
      [] data.shape = "malformed" -> ErrSyntax
      [] data.shape = "empty" -> ErrUnexpectedEnd

----------------------------------------------------------------------------
(* Readers: the response body is a stream that can be read once *)

Stream(body) == [data |-> body, reads |-> 0, net |-> TRUE]

\* everything the reader still holds, and the reader afterwards
ReadAll(r) ==
    [out |-> r.data,
     rest |-> [data |-> EmptyBody,
               reads |-> IF r.net THEN r.reads + 1 ELSE r.reads,
               net |-> r.net]]

\* the debug trace forgetting "rdr = buf": the final decode reads the stream again
FinalReaderKeepsStream(debug, stream, copied) ==
    IF debug THEN copied.rest ELSE stream

\* the reader the final Decode reads: the buffer when debug is on (rdr = &buf)
FinalReader(debug, stream, copied) ==
    IF debug
    THEN [data |-> copied.out, reads |-> copied.rest.reads, net |-> FALSE]
    ELSE stream

----------------------------------------------------------------------------
(* The logger: each entry is one call of c.logger.Debug / Debugf *)

Line(kind, text) == [kind |-> kind, text |-> text, err |-> Nil]
FailureLine(method, err) == [kind |-> "failure", text |-> method, err |-> err]

----------------------------------------------------------------------------
(* Payloads *)

\* the ErrorOption carrying the occurrence id: absent, present and empty,
\* present with an id
UUIDOptions ==
    {[has |-> FALSE, val |-> ""], [has |-> TRUE, val |-> ""],
     [has |-> TRUE, val |-> "id1"]}

\* uuid.New().String(): the n-th UUID drawn; the generator does not repeat
NewUUID(n) == "uuid-" \o ToString(n)

NoPayload ==
    [built |-> FALSE, token |-> "", level |-> "", uuid |-> "",
     fresh |-> FALSE, marshals |-> TRUE]

\* the option loop forgetting its keyUUID case
PayloadIDIgnoresOption(opt, fresh) == fresh

\* the id of the payload: the option's value, a new UUID when that is empty
PayloadID(opt, fresh) ==
    LET id == IF opt.has THEN opt.val ELSE ""
    IN  IF id = "" THEN fresh ELSE id

\* whether Client.payload calls uuid.New()
DrawsUUID(opt) == ~opt.has \/ opt.val = ""

\* Client.payload: customOK says whether json.Marshal can encode the
\* caller's custom fields
ClientPayload(token, level, opt, customOK, n) ==
    [built |-> TRUE, token |-> token, level |-> level,
     uuid |-> PayloadID(opt, NewUUID(n)), fresh |-> DrawsUUID(opt),
     marshals |-> customOK]

\* httpClient.payload: no options, no occurrence id
HttpPayload(token, level) ==
    [built |-> TRUE, token |-> token, level |-> level, uuid |-> "",
     fresh |-> FALSE, marshals |-> TRUE]

----------------------------------------------------------------------------
(* parseResponse *)

ClientTraceUnclosed(endpoint, buf) ==
    <<Line("resp_open", endpoint)>> \o
    (IF UnmarshalResponse(buf) # Nil
     THEN <<Line("trace_failed", UnmarshalResponse(buf).msg), Line("raw", buf.shape)>>
     ELSE <<Line("formatted", buf.uuid)>>)

\* what Client.parseResponse logs when debug is on
ClientTrace(endpoint, buf) ==
    <<Line("resp_open", endpoint)>> \o
    (IF UnmarshalResponse(buf) # Nil
     THEN <<Line("trace_failed", UnmarshalResponse(buf).msg), Line("raw", buf.shape)>>
     ELSE <<Line("formatted", buf.uuid)>>) \o
    <<Line("resp_close", endpoint)>>

\* what httpClient.parseResponse logs when debug is on
HttpTrace(endpoint, buf) ==
    <<Line("resp_open", endpoint)>> \o
    (IF UnmarshalMap(buf) # Nil
     THEN <<Line("trace_failed", UnmarshalMap(buf).msg)>>
     ELSE <<Line("formatted", buf.uuid)>>) \o
    <<Line("resp_close", endpoint)>>

\* Client.parseResponse(ctx, rdr, data)
ClientParseResponse(debug, endpoint, body) ==
    LET stream == Stream(body)
        copied == ReadAll(stream)
        final == ReadAll(FinalReader(debug, stream, copied))
        dec == DecodeInterface(final.out)
    IN  [err |-> dec.err, resp |-> dec.resp,
         log |-> IF debug THEN ClientTrace(endpoint, copied.out) ELSE <<>>,
         reads |-> final.rest.reads]

\* httpClient.parseResponse(ctx, rdr, resp)
HttpParseResponse(debug, endpoint, body) ==
    LET stream == Stream(body)
        copied == ReadAll(stream)
        final == ReadAll(FinalReader(debug, stream, copied))
        dec == DecodeResponse(final.out)
    IN  [err |-> dec.err, resp |-> dec.resp,
         log |-> IF debug THEN HttpTrace(endpoint, copied.out) ELSE <<>>,
         reads |-> final.rest.reads]

----------------------------------------------------------------------------
(* Calls *)

NoOutcome == [kind |-> "none", status |-> 0, body |-> EmptyBody]
Answer(status, body) == [kind |-> "resp", status |-> status, body |-> body]
\* ctxhttp.Do's error: the context's error when the context is done, the
\* transport's error otherwise
DoFailure(ctxDone) ==
    [kind |-> IF ctxDone THEN "ctx" ELSE "err", status |-> 0, body |-> EmptyBody]
OutcomeErr(outcome) == IF outcome.kind = "ctx" THEN ErrCanceled ELSE ErrConnection

Idle ==
    [pc |-> "idle", method |-> "", level |-> "",
     opt |-> [has |-> FALSE, val |-> ""], customOK |-> TRUE, ctxDone |-> FALSE,
     payload |-> NoPayload, posts |-> 0, outcome |-> NoOutcome, postErr |-> Nil,
     resp |-> NoResponse, parsed |-> FALSE, reads |-> 0, log |-> <<>>,
     callerErr |-> Nil]

Entered(method, level, opt, customOK) ==
    [Idle EXCEPT !.pc = "running", !.method = method, !.level = level,
                 !.opt = opt, !.customOK = customOK]

\* ctxhttp.Do(ctx, c.client, req): the request is handed to the HTTP client
Issue(c) == [c EXCEPT !.pc = "inflight", !.posts = @ + 1, !.outcome = NoOutcome]

\* post (or Do) returns err
Fail(c, err) == [c EXCEPT !.pc = "returned", !.postErr = err]

TokenNeverEmpty(token) == FALSE

\* if c.token == ""
TokenIsEmpty(token) == token = ""

\* http.NewRequest fails on an endpoint that is no URL
EndpointValid(endpoint) == endpoint # BadEndpoint

StatusRejectedUnless2xx(status) == status \div 100 # 2

\* if resp.StatusCode != 200
StatusRejected(status) == status # StatusOK

\* errors.Errorf("received response: %s", resp.Status)
ErrStatus(status) == [msg |-> "received response", cause |-> StatusText(status)]

\* Client.post, up to ctxhttp.Do
ClientPostBegin(token, debug, endpoint, c, n) ==
    IF TokenIsEmpty(token)
    THEN Fail(c, ErrEmptyToken)
    ELSE LET payload == ClientPayload(token, c.level, c.opt, c.customOK, n)
             built == [c EXCEPT !.payload = payload]
             logged == [built EXCEPT !.log =
                           @ \o (IF debug THEN <<Line("request", payload.level)>> ELSE <<>>)]
         IN  IF ~payload.marshals
             THEN Fail(built, Wrap(ErrUnsupportedType, "failed to encode payload"))
             ELSE IF ~EndpointValid(endpoint)
                  THEN Fail(logged, ErrorsNew("failed to create new POST request"))
                  ELSE Issue(logged)

\* a retry slipped into the error path
ClientDoErrorRetries(c, err) ==
    IF c.posts < 2 THEN Issue(c) ELSE Fail(c, Wrap(err, "failed to POST to rollbar"))

\* Client.post: ctxhttp.Do returned an error
ClientDoError(c, err) == Fail(c, Wrap(err, "failed to POST to rollbar"))

\* Client.post, from the return of ctxhttp.Do
ClientPostEnd(debug, endpoint, c) ==
    IF c.outcome.kind # "resp"
    THEN ClientDoError(c, OutcomeErr(c.outcome))
    ELSE IF StatusRejected(c.outcome.status)
         THEN Fail(c, ErrStatus(c.outcome.status))
         ELSE LET r == ClientParseResponse(debug, endpoint, c.outcome.body)
              IN  [c EXCEPT !.pc = "returned", !.postErr = r.err, !.resp = r.resp,
                            !.parsed = TRUE, !.reads = r.reads, !.log = @ \o r.log]

\* httpClient.newRequest: its error, Nil when the request is built
HttpNewRequest(token, endpoint, payload) ==
    IF TokenIsEmpty(token)
    THEN ErrEmptyToken
    ELSE IF ~payload.marshals
         THEN Wrap(ErrUnsupportedType, "failed to encode payload")
         ELSE IF ~EndpointValid(endpoint)
              THEN Wrap(ErrParseURL, "failed to create new POST request")
              ELSE Nil

\* the Call behind the httpClient's report methods: payload, newRequest, Do
CallRequestBegin(token, endpoint, c) ==
    LET payload == HttpPayload(token, c.level)
        built == [c EXCEPT !.payload = payload]
        err == HttpNewRequest(token, endpoint, payload)
    IN  IF err # Nil THEN Fail(built, err) ELSE Issue(built)

\* httpClient.Do: ctxhttp.Do returned an error
HttpDoError(c, err) ==
    IF c.ctxDone THEN Fail(c, ErrCanceled) ELSE Fail(c, Wrap(err, "failed to POST to rollbar"))

\* httpClient.Do, from the return of ctxhttp.Do
HttpDoEnd(debug, endpoint, c) ==
    IF c.outcome.kind # "resp"
    THEN HttpDoError(c, OutcomeErr(c.outcome))
    ELSE IF StatusRejected(c.outcome.status)
         THEN Fail(c, ErrStatus(c.outcome.status))
         ELSE LET r == HttpParseResponse(debug, endpoint, c.outcome.body)
              IN  [c EXCEPT !.pc = "returned", !.postErr = r.err, !.resp = r.resp,
                            !.parsed = TRUE, !.reads = r.reads, !.log = @ \o r.log]

FailureLogDropped(method, err) == <<>>

\* if err := c.post(...); err != nil { c.logger.Debug(ctx, "rollbar: <Method>: %+v", err) }
FailureLog(method, err) ==
    IF err # Nil THEN <<FailureLine(method, err)>> ELSE <<>>

\* Client.Debug, Info, Error, Warn, Critical around post: the method logs
\* post's error and has no result
Report(c) ==
    IF c.pc = "returned"
    THEN [c EXCEPT !.pc = "done", !.log = @ \o FailureLog(c.method, c.postErr),
                   !.callerErr = Nil]
    ELSE c

\* the httpClient's report methods around newRequest and Do: the same contract
CallReport(c) ==
    IF c.pc = "returned"
    THEN [c EXCEPT !.pc = "done",
                   !.log = @ \o (IF c.postErr # Nil
                                 THEN <<FailureLine(c.method, c.postErr)>>
                                 ELSE <<>>),
                   !.callerErr = Nil]
    ELSE c

----------------------------------------------------------------------------
(* The state machine *)

Init ==
    /\ cfg \in Configs
    /\ call = Idle
    /\ nextUUID = 1
    /\ issued = <<>>
    /\ ncalls = 0

\* the payload just built enters the history of ids
Built(c) ==
    /\ nextUUID' = IF c.payload.fresh THEN nextUUID + 1 ELSE nextUUID
    /\ issued' = IF c.payload.built /\ cfg.impl = "Client" /\ ~(c.opt.has /\ c.opt.val # "")
                  THEN Append(issued, c.payload.uuid)
                  ELSE issued

\* Debug, Info, Error, Warn or Critical is called and runs up to ctxhttp.Do,
\* or to its end when it fails before
CallMethod ==
    /\ call.pc = "idle"
    /\ ncalls < MaxCalls
    /\ \E method \in Methods, opt \in UUIDOptions, customOK \in BOOLEAN :
          LET c == Entered(method, LevelOf(method), opt, customOK)
              begun == IF cfg.impl = "Client"
                       THEN Report(ClientPostBegin(cfg.token, cfg.debug, cfg.endpoint,
                                                   c, nextUUID))
                       ELSE CallReport(CallRequestBegin(cfg.token, cfg.endpoint, c))
          IN  /\ call' = begun
              /\ Built(begun)
    /\ ncalls' = ncalls + 1
    /\ UNCHANGED cfg

\* the payload builder called on its own, with any Level value
CallPayload ==
    /\ call.pc = "idle"
    /\ ncalls < MaxCalls
    /\ \E level \in AnyLevel, opt \in UUIDOptions :
          LET c == Entered("payload", level, opt, TRUE)
              payload == IF cfg.impl = "Client"
                         THEN ClientPayload(cfg.token, level, opt, TRUE, nextUUID)
                         ELSE HttpPayload(cfg.token, level)
              built == [c EXCEPT !.pc = "done", !.payload = payload]
          IN  /\ call' = built
              /\ Built(built)
    /\ ncalls' = ncalls + 1
    /\ UNCHANGED cfg

\* the caller's context is cancelled while the call is running
Cancel ==
    /\ call.pc \in {"inflight", "answered"}
    /\ ~call.ctxDone
    /\ call' = [call EXCEPT !.ctxDone = TRUE]
    /\ UNCHANGED <<cfg, nextUUID, issued, ncalls>>

\* the server answers and ctxhttp.Do returns the response
Respond ==
    /\ call.pc = "inflight"
    /\ ~call.ctxDone
    /\ \E status \in Statuses :
          \E body \in (IF status = StatusOK THEN Bodies ELSE {Body("ok", 0, "X")}) :
             call' = [call EXCEPT !.pc = "answered", !.outcome = Answer(status, body)]
    /\ UNCHANGED <<cfg, nextUUID, issued, ncalls>>

\* the request fails, or is aborted by the context, and ctxhttp.Do returns an error
DoFails ==
    /\ call.pc = "inflight"
    /\ call' = [call EXCEPT !.pc = "answered", !.outcome = DoFailure(call.ctxDone)]
    /\ UNCHANGED <<cfg, nextUUID, issued, ncalls>>

\* the call goes on from the return of ctxhttp.Do to its end
Resume ==
    /\ call.pc = "answered"
    /\ call' = IF cfg.impl = "Client"
                THEN Report(ClientPostEnd(cfg.debug, cfg.endpoint, call))
                ELSE CallReport(HttpDoEnd(cfg.debug, cfg.endpoint, call))
    /\ UNCHANGED <<cfg, nextUUID, issued, ncalls>>

\* the caller goes on; the client is ready for the next call
Return ==
    /\ call.pc = "done"
    /\ call' = Idle
    /\ UNCHANGED <<cfg, nextUUID, issued, ncalls>>

Next ==
    \/ CallMethod
    \/ CallPayload
    \/ Cancel
    \/ Respond
    \/ DoFails
    \/ Resume
    \/ Return

Spec == Init /\ [][Next]_vars

----------------------------------------------------------------------------
(* Properties *)

Done == call.pc = "done"
Reported == Done /\ call.method \in Methods
Answered200 == call.outcome.kind = "resp" /\ call.outcome.status = 200
Kinds(log) == [i \in 1..Len(log) |-> log[i].kind]
IsFailure(line) == line.kind = "failure"
IsTrace(line) == line.kind # "failure"

\* C1: with an empty access token a report call never issues an HTTP request
\* (it never waits in ctxhttp.Do), and post's error is "empty token"
C1_EmptyTokenBeforeNetwork ==
    cfg.token = "" /\ call.method \in Methods =>
        /\ call.posts = 0
        /\ call.pc \notin {"inflight", "answered"}
        /\ call.outcome.kind = "none"
        /\ Done => call.postErr = [msg |-> "empty token", cause |-> ""]

C1_Witness ==
    /\ Reported
    /\ cfg.token = ""
    /\ call.postErr.msg = "empty token"
    /\ call.posts = 0

\* C2: when ctxhttp.Do fails because the context was cancelled in flight, post's
\* error is the context's error itself, not "failed to POST to rollbar"; when it
\* fails with the context live (to the end of the call), post's error is
\* "failed to POST to rollbar"
C2_CancellationIsContextError ==
    Reported =>
        /\ call.outcome.kind = "ctx" => call.postErr = [msg |-> "context canceled", cause |-> ""]
        /\ call.outcome.kind = "err" /\ ~call.ctxDone =>
              call.postErr.msg = "failed to POST to rollbar"

\* C3: a report method of the Client gives its caller no error, and logs post's
\* error exactly once when there is one and no failure line when there is none
C3_ErrorsOnlyLogged ==
    Reported /\ cfg.impl = "Client" =>
        /\ call.callerErr = Nil
        /\ SelectSeq(call.log, IsFailure) =
              IF call.postErr # Nil
              THEN <<[kind |-> "failure", text |-> call.method, err |-> call.postErr]>>
              ELSE <<>>

C3_Witness ==
    /\ Reported
    /\ cfg.impl = "Client"
    /\ call.postErr = ErrSyntax
    /\ Len(SelectSeq(call.log, IsFailure)) = 1
    /\ call.callerErr = Nil

\* C4: a call issues at most one HTTP POST, whatever its outcome, and exactly
\* one when the token is not empty and encoding and request construction succeed
C4_SinglePost ==
    /\ call.posts <= 1
    /\ (Reported /\ cfg.token # ""
           /\ call.postErr.msg \notin {"failed to encode payload",
                                      "failed to create new POST request"})
          => call.posts = 1

C4_Witness ==
    /\ Reported
    /\ call.outcome.kind = "err"
    /\ call.postErr.msg = "failed to POST to rollbar"
    /\ call.posts = 1

\* C5: a response whose status is not 200 makes post fail with "received
\* response: <status text>"; its body is never read by the parser and no
\* Response is decoded
C5_Non200Rejected ==
    Reported /\ call.outcome.kind = "resp" /\ call.outcome.status # 200 =>
        /\ call.postErr = [msg |-> "received response",
                           cause |-> StatusText(call.outcome.status)]
        /\ ~call.parsed
        /\ call.reads = 0
        /\ ~call.resp.present

C5_Witness ==
    /\ Reported
    /\ call.outcome.kind = "resp"
    /\ call.outcome.status = 201
    /\ call.postErr.cause = "201 Created"
    /\ ~call.parsed

\* C6: with a non-empty token, a 200 answer with a well-formed Response body
\* makes post succeed whatever the body's err, and the decoded Response the
\* caller gets carries the body's err and uuid
C6_OkBodyDecoded ==
    Reported /\ cfg.token # "" /\ Answered200 /\ call.outcome.body.shape = "ok" =>
        /\ call.postErr = Nil
        /\ call.resp = [present |-> TRUE, err |-> call.outcome.body.err,
                        uuid |-> call.outcome.body.uuid]

\* C7: the parser's outcome (error, decoded Response) with the client's debug
\* flag is the outcome with debug off, the body stream is read exactly once,
\* and a failed debug trace does not fail the call
C7_DebugDoesNotChangeParse ==
    Reported /\ call.parsed =>
        LET off == IF cfg.impl = "Client"
                   THEN ClientParseResponse(FALSE, cfg.endpoint, call.outcome.body)
                   ELSE HttpParseResponse(FALSE, cfg.endpoint, call.outcome.body)
        IN  /\ call.postErr = off.err
            /\ call.resp = off.resp
            /\ call.reads = 1
            /\ off.log = <<>>

C7_Witness ==
    /\ Reported
    /\ cfg.debug
    /\ call.parsed
    /\ \E i \in 1..Len(call.log) : call.log[i].kind = "trace_failed"
    /\ call.postErr = Nil
    /\ call.reads = 1

C9_BuilderRejectsOtherLevels ==
    call.payload.built => call.payload.level \in Levels

\* C9, amended: each report method builds its payload at its own level, so a
\* payload that reaches the transport carries one of the five levels; the
\* builder copies the level it is given
C9_MethodsUseFixedLevels ==
    /\ (call.method \in Methods /\ call.payload.built =>
          call.payload.level =
            (CASE call.method = "Debug" -> "debug"
               [] call.method = "Info" -> "info"
               [] call.method = "Warn" -> "warning"
               [] call.method = "Error" -> "error"
               [] call.method = "Critical" -> "critical"))
    /\ (call.posts > 0 =>
          call.payload.level \in {"debug", "info", "warning", "error", "critical"})
    /\ (call.payload.built => call.payload.level = call.level)

C9_Witness ==
    /\ Reported
    /\ call.method = "Warn"
    /\ call.posts = 1
    /\ call.payload.level = "warning"

====
